---- MODULE Spec2Model ----
(***************************************************************************)
(* npm trusted-publisher browser extension: the persisted record           *)
(* `trustedPublisherState` shared by the Controller (popup), the Page      *)
(* Agent (content script) and the Coordinator (service worker).            *)
(*                                                                         *)
(* Granularity.  A handler of the popup works on its in-memory `state` and *)
(* is one action (its awaits are on storage.set / tabs.query and resolve   *)
(* before the next event is dispatched to the popup).  A component that    *)
(* reads the record from storage and writes it back later is two actions:  *)
(* the read and the write-back, with the copy it holds in between.  Every  *)
(* setTimeout is an action of its own.  A navigation of the tab destroys   *)
(* the content script of the page that is left.                            *)
(***************************************************************************)
EXTENDS Integers, Sequences, FiniteSets, TLC

VARIABLES
  stored,     \* chrome.storage.local['trustedPublisherState']
  state,      \* popup.js: the Controller's in-memory state
  elements,   \* popup.js: values of the popup's form inputs
  ui,         \* popup.js: disabled flags of the buttons, as set by updateUI
  popupOpen,  \* whether the popup document exists
  timer,      \* popup.js: an auto-advance setTimeout is pending
  notif,      \* storage.onChanged events not yet delivered to the popup
  msgs,       \* packageResult messages not yet delivered to the popup
  tab,        \* the active tab: package of its URL and what the page shows
  pa,         \* content.js: position and local copy of handlePageLoad
  obs,        \* content.js: the result observer
  co,         \* service-worker.js: position and local copy of onUpdated
  ops,        \* number of operator actions on the popup so far
  last,       \* the operator's last action on the popup
  sh          \* the batch script that runs, if one does: its variables

\* the variables of the extension
ext == <<stored, state, elements, ui, popupOpen, timer, notif, msgs, tab, pa, obs, co, ops, last>>
vars == <<stored, state, elements, ui, popupOpen, timer, notif, msgs, tab, pa, obs, co, ops, last, sh>>

(***************************************************************************)
(* Bounds.                                                                 *)
(***************************************************************************)
MaxOps == 2
MaxNotif == 1
MaxMsgs == 1
MaxObservers == 2

(***************************************************************************)
(* Values.                                                                 *)
(***************************************************************************)
Undefined == "undefined"

\* Texts the operator can put in the packages textarea, as lists of lines.
PkgTexts == { <<>>, <<"# c", "">>, <<" a">>, <<"a", "b">> }

\* Values the operator can put in the configuration inputs.
ConfigInputs ==
  [ owner |-> {""},
    repository |-> {""},
    workflow |-> {" "},
    navigationMode |-> {"auto"} ]

\* What a loaded settings page shows.
PageKinds == {"challenge", "notFound", "success", "configured", "form", "noform"}

(***************************************************************************)
(* JavaScript helpers.                                                     *)
(***************************************************************************)
\* Array.prototype.includes
Includes(list, x) == \E i \in 1..Len(list) : list[i] = x

\* a push without the membership check
PushAlways(list, x) == Append(list, x)

\* if (!list.includes(x)) list.push(x)
PushNew(list, x) == IF Includes(list, x) THEN list ELSE Append(list, x)

\* list.filter((p) => p !== x)
Without(list, x) == SelectSeq(list, LAMBDA p : p # x)

\* list[i] of a JavaScript array: undefined outside the array
At(list, i) == IF i >= 0 /\ i < Len(list) THEN list[i + 1] ELSE Undefined

\* String.prototype.trim on the strings of the model
Trim(s) ==
  CASE s = " a" -> "a"
    [] s = " " -> ""
    [] OTHER -> s

\* line.startsWith('#')
StartsWithHash(s) == s = "# c"

\* String(bool)
String(b) == IF b THEN "true" ELSE "false"

\* { ...s, ...t }
Spread(s, t) == [k \in DOMAIN s \cup DOMAIN t |-> IF k \in DOMAIN t THEN t[k] ELSE s[k]]

(***************************************************************************)
(* popup.js: pure parts.                                                   *)
(***************************************************************************)
DefaultConfig ==
  [ owner |-> "dxos", repository |-> "dxos", workflow |-> "publish-all.yml",
    environment |-> "", navigationMode |-> "manual", autoSubmit |-> FALSE,
    delay |-> 2, mode |-> Undefined ]

\* popup.js: the initial value of `state`
InitState ==
  [ status |-> "idle", packages |-> <<>>, currentIndex |-> 0,
    completed |-> <<>>, failed |-> <<>>, skipped |-> <<>>,
    config |-> DefaultConfig ]

\* service-worker.js: the record written on install
defaultState ==
  [ status |-> "idle", packages |-> <<>>, currentIndex |-> 0,
    completed |-> <<>>, failed |-> <<>>, skipped |-> <<>>,
    config |-> DefaultConfig ]

parsePackages(text) ==
  LET trimmed == [i \in 1..Len(text) |-> Trim(text[i])]
  IN SelectSeq(trimmed, LAMBDA line : line # "" /\ ~StartsWithHash(line))

\* the object saveConfig builds from the inputs (it has no mode key)
ConfigOf(el) ==
  [ owner |-> Trim(el.owner), repository |-> Trim(el.repository),
    workflow |-> Trim(el.workflow), environment |-> "",
    navigationMode |-> el.navigationMode,
    autoSubmit |-> (el.autoSubmit = "true"),
    delay |-> 2, mode |-> Undefined ]

\* the inputs as loadState populates them
ElementsOf(s) ==
  [ owner |-> s.config.owner, repository |-> s.config.repository,
    workflow |-> s.config.workflow,
    navigationMode |-> s.config.navigationMode,
    autoSubmit |-> String(s.config.autoSubmit),
    packages |-> s.packages ]

\* the disabled flags updateUI sets
updateUI(s) ==
  [ start |-> s.status = "running",
    pause |-> s.status # "running",
    resume |-> s.status # "paused",
    next |-> (s.status # "running" \/ s.config.navigationMode # "manual") ]


(***************************************************************************)
(* Storage and the tab.                                                    *)
(***************************************************************************)
\* storage.onChanged is queued for the popup when it is open
Notify(q, rec) ==
  IF ~popupOpen THEN <<>>
  ELSE IF Len(q) < MaxNotif THEN Append(q, rec)
  ELSE Append(Tail(q), rec)

RECURSIVE NotifyAll(_, _)
NotifyAll(q, recs) ==
  IF recs = <<>> THEN q ELSE NotifyAll(Notify(q, Head(recs)), Tail(recs))

\* chrome.storage.local.set({ trustedPublisherState: rec }) for each rec of
\* recs in turn, all issued by one handler
Set(recs) == stored' = recs[Len(recs)] /\ notif' = NotifyAll(notif, recs)

\* no batch script runs
NoScript == [prog |-> "none"]

NoPa == [pc |-> "none", st |-> InitState]
NoObs ==
  [ on |-> FALSE, list |-> <<>>, fill |-> "none",
    pkg |-> Undefined, pc |-> "none", st |-> InitState ]
NoCo == [pc |-> "idle", st |-> InitState]

\* the tab loads the settings page of package p: a new content script runs
\* handlePageLoad and tabs.onUpdated fires with status 'complete' (its
\* handler can act only on a not-found page, so only then is it recorded)
Navigate(p) ==
  \E k \in PageKinds :
    /\ tab' = [pkg |-> p, kind |-> k]
    /\ pa' = [pc |-> "load", st |-> InitState]
    /\ obs' = NoObs
    /\ co' = IF k = "notFound" THEN [pc |-> "event", st |-> InitState] ELSE NoCo

NoNavigation == UNCHANGED <<tab, pa, obs, co>>

(***************************************************************************)
(* popup.js: the Controller.                                               *)
(***************************************************************************)
\* Records a session of the operator can have left in storage when the
\* popup is opened again: the record of a fresh install, a package list
\* typed in and not started (one with the same package on two lines), and a
\* run in which the operator has pressed next on the first package.
Saved(status, packages, currentIndex, completed) ==
  [ defaultState EXCEPT !.status = status, !.packages = packages,
                        !.currentIndex = currentIndex, !.completed = completed ]

\* a record in delete mode: config.mode is read by the Page Agent and set
\* by no code of the extension; such a record reaches storage through the
\* Coordinator's updateState relay
InDeleteMode(s) == [s EXCEPT !.config.mode = "delete"]

IdleRecords ==
  { defaultState,
    Saved("idle", <<"a", "b">>, 0, <<>>),
    Saved("idle", <<"a", "a">>, 0, <<>>),
    Saved("paused", <<"a", "b">>, 1, <<"a">>),
    InDeleteMode(Saved("idle", <<"a", "b">>, 0, <<>>)) }

RunningRecord == Saved("running", <<"a", "b">>, 1, <<"a">>)
RunningRecords == {RunningRecord, InDeleteMode(RunningRecord)}

\* The operator opens the popup (init() runs loadState() and updateUI()),
\* either on a record at rest, the tab being elsewhere, or during a run,
\* the tab having just loaded the page of the current package.
Init ==
  /\ \/ /\ stored \in IdleRecords
        /\ tab = [pkg |-> "none", kind |-> "none"]
        /\ pa = NoPa
        /\ co = NoCo
     \/ /\ stored \in RunningRecords
        /\ \E k \in PageKinds :
             /\ tab = [pkg |-> At(stored.packages, stored.currentIndex), kind |-> k]
             /\ co = IF k = "notFound" THEN [pc |-> "event", st |-> InitState] ELSE NoCo
        /\ pa = [pc |-> "load", st |-> InitState]
  /\ state = Spread(InitState, stored)
  /\ elements = ElementsOf(state)
  /\ ui = updateUI(state)
  /\ popupOpen = TRUE
  /\ timer = FALSE
  /\ notif = <<>>
  /\ msgs = <<>>
  /\ obs = NoObs
  /\ ops = 0
  /\ last = "init"
  /\ sh = NoScript

\* the operator closes the popup: its document, with the in-memory state,
\* the listeners and the pending timer, is gone
ClosePopup ==
  /\ sh' = sh
  /\ last' = "ClosePopup"
  /\ popupOpen
  /\ ops < MaxOps
  /\ ops' = ops + 1
  /\ popupOpen' = FALSE
  /\ timer' = FALSE
  /\ notif' = <<>>
  /\ msgs' = <<>>
  /\ UNCHANGED <<stored, state, elements, ui>>
  /\ NoNavigation

\* init(): the operator opens the popup; loadState() and updateUI()
init ==
  /\ sh' = sh
  /\ last' = "init"
  /\ ~popupOpen
  /\ ops < MaxOps
  /\ ops' = ops + 1
  /\ popupOpen' = TRUE
  /\ state' = Spread(InitState, stored)
  /\ elements' = ElementsOf(state')
  /\ ui' = updateUI(state')
  /\ UNCHANGED <<stored, timer, notif, msgs>>
  /\ NoNavigation

\* saveConfig(): the state it leaves (and saves)
saveConfig(s, el) == [s EXCEPT !.config = ConfigOf(el)]

\* change / blur of a configuration input
EditConfig ==
  /\ sh' = sh
  /\ last' = "EditConfig"
  /\ popupOpen
  /\ ops < MaxOps
  /\ ops' = ops + 1
  /\ \E f \in DOMAIN ConfigInputs : \E v \in ConfigInputs[f] :
       elements' = [elements EXCEPT ![f] = v]
  /\ state' = saveConfig(state, elements')
  /\ Set(<<state'>>)
  /\ UNCHANGED <<ui, popupOpen, timer, msgs>>
  /\ NoNavigation

\* change of the packages textarea
EditPackages ==
  /\ sh' = sh
  /\ last' = "EditPackages"
  /\ popupOpen
  /\ ops < MaxOps
  /\ ops' = ops + 1
  /\ \E t \in PkgTexts : elements' = [elements EXCEPT !.packages = t]
  /\ state' = [state EXCEPT !.packages = parsePackages(elements'.packages)]
  /\ Set(<<state'>>)
  /\ ui' = updateUI(state')
  /\ UNCHANGED <<popupOpen, timer, msgs>>
  /\ NoNavigation

\* processCurrentPackage() on state s; ws are the records the caller has
\* saved before the call
processCurrentPackage(s, ws) ==
  IF s.status # "running"
    THEN /\ state' = s
         /\ Set(ws)
         /\ NoNavigation
    ELSE IF s.currentIndex >= Len(s.packages)
      THEN /\ state' = [s EXCEPT !.status = "idle"]
           /\ Set(Append(ws, state'))
           /\ NoNavigation
      ELSE /\ state' = s
           /\ Set(ws)
           /\ Navigate(At(s.packages, s.currentIndex))

\* the reset with the completed bucket kept
ResetRunKeepsCompleted(s, status) ==
  [s EXCEPT !.status = status, !.currentIndex = 0,
            !.failed = <<>>, !.skipped = <<>>]

\* the reset with the cursor kept
ResetRunKeepsIndex(s, status) ==
  [s EXCEPT !.status = status,
            !.completed = <<>>, !.failed = <<>>, !.skipped = <<>>]

\* the reset of handleStart and handleReset
ResetRun(s, status) ==
  [s EXCEPT !.status = status, !.currentIndex = 0,
            !.completed = <<>>, !.failed = <<>>, !.skipped = <<>>]

\* handleStart(): the two validations
packagesMissing(packages) == Len(packages) = 0

\* the validation without the workflow field
configMissingNoWorkflow(config) ==
  config.owner = "" \/ config.repository = ""

configMissing(config) ==
  config.owner = "" \/ config.repository = "" \/ config.workflow = ""

\* handleStart()
handleStart ==
  /\ sh' = sh
  /\ last' = "handleStart"
  /\ popupOpen
  /\ ~ui.start
  /\ ops < MaxOps
  /\ ops' = ops + 1
  /\ LET s1 == saveConfig(state, elements)
         s2 == [s1 EXCEPT !.packages = parsePackages(elements.packages)]
         s3 == ResetRun(s2, "running")
     IN IF packagesMissing(s2.packages)
          THEN /\ state' = s2
               /\ Set(<<s1>>)
               /\ ui' = ui
               /\ NoNavigation
          ELSE IF configMissing(s2.config)
            THEN /\ state' = s2
                 /\ Set(<<s1>>)
                 /\ ui' = ui
                 /\ NoNavigation
            ELSE /\ processCurrentPackage(s3, <<s1, s3>>)
                 /\ ui' = updateUI(state')
  /\ UNCHANGED <<elements, popupOpen, timer, msgs>>

\* a pause that also rewinds the cursor
PauseStateRewinds(s) == [s EXCEPT !.status = "paused", !.currentIndex = 0]

\* handlePause(): the state it leaves
PauseState(s) == [s EXCEPT !.status = "paused"]

\* handlePause()
handlePause ==
  /\ sh' = sh
  /\ last' = "handlePause"
  /\ popupOpen
  /\ ~ui.pause
  /\ ops < MaxOps
  /\ ops' = ops + 1
  /\ state' = PauseState(state)
  /\ Set(<<state'>>)
  /\ ui' = updateUI(state')
  /\ UNCHANGED <<elements, popupOpen, timer, msgs>>
  /\ NoNavigation

\* handleResume()
handleResume ==
  /\ sh' = sh
  /\ last' = "handleResume"
  /\ popupOpen
  /\ ~ui.resume
  /\ ops < MaxOps
  /\ ops' = ops + 1
  /\ LET s1 == [state EXCEPT !.status = "running"]
     IN processCurrentPackage(s1, <<s1>>)
  /\ ui' = updateUI(state')
  /\ UNCHANGED <<elements, popupOpen, timer, msgs>>

\* handleReset()
handleReset ==
  /\ sh' = sh
  /\ last' = "handleReset"
  /\ popupOpen
  /\ ops < MaxOps
  /\ ops' = ops + 1
  /\ state' = ResetRun(state, "idle")
  /\ Set(<<state'>>)
  /\ ui' = updateUI(state')
  /\ UNCHANGED <<elements, popupOpen, timer, msgs>>
  /\ NoNavigation

\* a next that moves the cursor without marking the package
NextStateNoMark(s) == [s EXCEPT !.currentIndex = s.currentIndex + 1]

\* handleNext(): the state after its first part, up to the first saveState
NextState(s) ==
  LET currentPkg == At(s.packages, s.currentIndex)
      s1 == IF currentPkg # Undefined /\ ~Includes(s.completed, currentPkg)
                 /\ ~Includes(s.failed, currentPkg)
              THEN [s EXCEPT !.completed = Append(s.completed, currentPkg)]
              ELSE s
  IN [s1 EXCEPT !.currentIndex = s.currentIndex + 1]

\* handleNext()
handleNext ==
  /\ sh' = sh
  /\ last' = "handleNext"
  /\ popupOpen
  /\ ~ui.next
  /\ ops < MaxOps
  /\ ops' = ops + 1
  /\ LET s1 == NextState(state)
     IN IF s1.currentIndex >= Len(s1.packages)
          THEN /\ state' = [s1 EXCEPT !.status = "idle"]
               /\ Set(<<s1, state'>>)
               /\ NoNavigation
          ELSE processCurrentPackage(s1, <<s1>>)
  /\ ui' = updateUI(state')
  /\ UNCHANGED <<elements, popupOpen, timer, msgs>>

\* handleFillCurrent(): save the configuration and, if the tab is on a
\* package access page, send fillForm to its content script
handleFillCurrent ==
  /\ sh' = sh
  /\ last' = "handleFillCurrent"
  /\ popupOpen
  /\ ops < MaxOps
  /\ ops' = ops + 1
  /\ state' = saveConfig(state, elements)
  /\ Set(<<state'>>)
  /\ obs' = IF tab.pkg # "none" THEN [obs EXCEPT !.fill = "sent"] ELSE obs
  /\ UNCHANGED <<elements, ui, popupOpen, timer, msgs, tab, pa, co>>

\* chrome.storage.onChanged listener of the popup
onChanged ==
  /\ sh' = sh
  /\ last' = last
  /\ popupOpen
  /\ notif # <<>>
  /\ state' = Spread(state, Head(notif))
  /\ notif' = Tail(notif)
  /\ ui' = updateUI(state')
  /\ UNCHANGED <<stored, elements, popupOpen, timer, msgs, ops>>
  /\ NoNavigation

\* a classification that records no failure
ClassifiedDropsFailure(s, m) ==
  IF m.success
    THEN IF m.alreadyConfigured /\ ~m.completed
           THEN [s EXCEPT !.skipped = PushNew(s.skipped, m.packageName),
                          !.completed = Without(s.completed, m.packageName)]
           ELSE IF m.notFound
             THEN [s EXCEPT !.skipped = PushNew(s.skipped, m.packageName)]
             ELSE [s EXCEPT !.completed = PushNew(s.completed, m.packageName),
                            !.skipped = Without(s.skipped, m.packageName)]
    ELSE s

\* handlePackageResult(message): the buckets after the classification
Classified(s, m) ==
  IF m.success
    THEN IF m.alreadyConfigured /\ ~m.completed
           THEN [s EXCEPT !.skipped = PushNew(s.skipped, m.packageName),
                          !.completed = Without(s.completed, m.packageName)]
           ELSE IF m.notFound
             THEN [s EXCEPT !.skipped = PushNew(s.skipped, m.packageName)]
             ELSE [s EXCEPT !.completed = PushNew(s.completed, m.packageName),
                            !.skipped = Without(s.skipped, m.packageName)]
    ELSE [s EXCEPT !.failed = PushNew(s.failed, m.packageName)]

shouldAutoAdvance(s, m) ==
  \/ m.alreadyConfigured
  \/ m.notFound
  \/ (s.config.navigationMode = "auto" /\ s.status = "running")

\* handlePackageResult(message)
handlePackageResult ==
  /\ sh' = sh
  /\ last' = last
  /\ popupOpen
  /\ msgs # <<>>
  /\ msgs' = Tail(msgs)
  /\ LET m == Head(msgs)
         s1 == Classified(state, m)
         s2 == [s1 EXCEPT !.currentIndex = s1.currentIndex + 1]
         s3 == [s2 EXCEPT !.status = "idle"]
     IN IF m.success /\ shouldAutoAdvance(s1, m) /\ s1.status = "running"
          THEN IF s2.currentIndex < Len(s2.packages)
                 THEN /\ state' = s2
                      /\ Set(<<s2, s2>>)
                      /\ timer' = TRUE
                 ELSE /\ state' = s3
                      /\ Set(<<s2, s3, s3>>)
                      /\ timer' = timer
          ELSE /\ state' = s1
               /\ Set(<<s1>>)
               /\ timer' = timer
  /\ ui' = updateUI(state')
  /\ UNCHANGED <<elements, popupOpen, ops>>
  /\ NoNavigation

\* the auto-advance setTimeout of handlePackageResult fires
AdvanceTimer ==
  /\ sh' = sh
  /\ last' = last
  /\ popupOpen
  /\ timer
  /\ timer' = FALSE
  /\ IF state.status = "running"
       THEN /\ IF state.currentIndex >= Len(state.packages)
                 THEN /\ state' = [state EXCEPT !.status = "idle"]
                      /\ Set(<<state'>>)
                      /\ NoNavigation
                 ELSE /\ state' = state
                      /\ UNCHANGED <<stored, notif>>
                      /\ Navigate(At(state.packages, state.currentIndex))
            /\ ui' = updateUI(state')
       ELSE /\ UNCHANGED <<state, stored, notif, ui>>
            /\ NoNavigation
  /\ UNCHANGED <<elements, popupOpen, msgs, ops>>

(***************************************************************************)
(* content.js: the Page Agent.                                             *)
(***************************************************************************)
\* a packageResult message; a flag the sender leaves out is falsy
Result(success, packageName, alreadyConfigured, notFound, completed) ==
  [ success |-> success, packageName |-> packageName,
    alreadyConfigured |-> alreadyConfigured, notFound |-> notFound,
    completed |-> completed ]

\* the message of the challenge branch: success false and waiting true
Waiting(packageName) ==
  [ success |-> FALSE, packageName |-> packageName,
    alreadyConfigured |-> FALSE, notFound |-> FALSE, completed |-> FALSE,
    waiting |-> TRUE ]

\* a page where every control counts as a delete control
hasDeleteButtonAnywhere == tab.kind # "notFound"

\* hasDeleteButton(): the page of a configured package shows the control
hasDeleteButton == tab.kind = "configured"

\* hasTurnstileChallenge()
hasTurnstileChallenge == tab.kind = "challenge"

\* chrome.runtime.sendMessage(m): it reaches the popup if the popup is open
CanSend == popupOpen => Len(msgs) < MaxMsgs
Send(m) == msgs' = IF popupOpen THEN Append(msgs, m) ELSE msgs

\* handlePageLoad(), up to the one-second wait
handlePageLoad ==
  /\ sh' = sh
  /\ last' = last
  /\ pa.pc \in {"load", "timedOut"}
  /\ IF stored.status # "running"
       THEN /\ pa' = [pc |-> "done", st |-> InitState]
            /\ msgs' = msgs
       ELSE IF hasTurnstileChallenge
         THEN /\ CanSend
              /\ Send(Waiting(At(stored.packages, stored.currentIndex)))
              /\ pa' = [pc |-> "challenge", st |-> stored]
         ELSE /\ msgs' = msgs
              /\ IF tab.pkg # At(stored.packages, stored.currentIndex)
                   THEN pa' = [pc |-> "done", st |-> InitState]
                   ELSE pa' = [pc |-> "wait", st |-> stored]
  /\ UNCHANGED <<stored, state, elements, ui, popupOpen, timer, notif, tab, obs, co, ops>>

\* waitForChallengeCompletion() resolves true: a poll finds no challenge;
\* after one more second handlePageLoad runs again
challengeCompleted ==
  /\ sh' = sh
  /\ last' = last
  /\ pa.pc = "challenge"
  /\ ~hasTurnstileChallenge
  /\ pa' = [pc |-> "load", st |-> InitState]
  /\ UNCHANGED <<stored, state, elements, ui, popupOpen, timer, notif, msgs, tab, obs, co, ops>>

\* waitForChallengeCompletion() resolves false: the challenge is still there
\* after the timeout; after one more second handlePageLoad runs again
challengeTimeout ==
  /\ sh' = sh
  /\ last' = last
  /\ pa.pc = "challenge"
  /\ hasTurnstileChallenge
  /\ pa' = [pc |-> "timedOut", st |-> InitState]
  /\ UNCHANGED <<stored, state, elements, ui, popupOpen, timer, notif, msgs, tab, obs, co, ops>>

\* the challenge is passed and the page shows its content
ChallengePassed ==
  /\ sh' = sh
  /\ last' = last
  /\ hasTurnstileChallenge
  /\ \E k \in PageKinds \ {"challenge"} : tab' = [tab EXCEPT !.kind = k]
  /\ UNCHANGED <<stored, state, elements, ui, popupOpen, timer, notif, msgs, pa, obs, co, ops>>

\* the record after `bucket` has received the package and the cursor moved
Advanced(s, bucket, packageName) ==
  LET s1 == [s EXCEPT ![bucket] = PushNew(s[bucket], packageName),
                      !.currentIndex = s.currentIndex + 1]
  IN IF s1.currentIndex >= Len(s1.packages)
       THEN [s1 EXCEPT !.status = "idle"]
       ELSE s1

\* an already-configured branch that skips whatever was completed
AlreadyConfiguredSkips(s, packageName) == Advanced(s, "skipped", packageName)

\* the record of the already-configured branch
AlreadyConfigured(s, packageName) ==
  IF Includes(s.completed, packageName)
    THEN Advanced(s, "completed", packageName)
    ELSE Advanced(s, "skipped", packageName)

\* a tail that advances the cursor persisted now, not the one read earlier
AdvanceAndReportFresh(s1, m) ==
  /\ Set(<<[s1 EXCEPT !.currentIndex = stored.currentIndex + 1]>>)
  /\ pa' = IF s1.currentIndex >= Len(s1.packages)
             THEN [pc |-> "done", st |-> InitState]
             ELSE [pc |-> "timer", st |-> s1]
  /\ Send(m)
  /\ obs' = obs

\* the tail shared by the branches that advance: save, then finish or arm
\* the 500 ms navigation timer, then report
AdvanceAndReport(s1, m) ==
  /\ Set(<<s1>>)
  /\ pa' = IF s1.currentIndex >= Len(s1.packages)
             THEN [pc |-> "done", st |-> InitState]
             ELSE [pc |-> "timer", st |-> s1]
  /\ Send(m)
  /\ obs' = obs

\* the MutationObservers created on the page that still matter: one that
\* is disconnected and whose 60 s timeout has fired is dropped
Live(list) == SelectSeq(list, LAMBDA o : o.connected \/ o.timeout)

\* the observers of list that are connected to the page
Connected(list) == {i \in 1..Len(list) : list[i].connected}

\* a setup that connects no observer
setupSuccessObserverNone(o, packageName) == o

\* setupSuccessObserver(packageName): nothing if the observing flag is set,
\* else a new connected observer with its 60 s timeout
setupSuccessObserver(o, packageName) ==
  IF o.on
    THEN o
    ELSE [o EXCEPT !.on = TRUE, !.pkg = packageName,
                   !.list = Append(@, [connected |-> TRUE, timeout |-> TRUE])]
CanObserve == obs.on \/ Len(obs.list) < MaxObservers

\* handlePageLoad(), after the one-second wait: classify the page and react
classifyPage ==
  /\ sh' = sh
  /\ last' = last
  /\ pa.pc = "wait"
  /\ CanSend
  /\ LET s == pa.st
         packageName == tab.pkg
     IN CASE tab.kind = "notFound" ->
               AdvanceAndReport(Advanced(s, "skipped", packageName),
                                Result(TRUE, packageName, FALSE, TRUE, FALSE))
          [] tab.kind = "success" ->
               AdvanceAndReport(Advanced(s, "completed", packageName),
                                Result(TRUE, packageName, FALSE, FALSE, TRUE))
          [] tab.kind \notin {"notFound", "success"} /\ s.config.mode = "delete" ->
               IF ~hasDeleteButton
                 THEN AdvanceAndReport(Advanced(s, "skipped", packageName),
                                       Result(TRUE, packageName, TRUE, FALSE, FALSE))
                 ELSE /\ CanObserve
                      /\ obs' = setupSuccessObserver(obs, packageName)
                      /\ pa' = [pc |-> "click", st |-> InitState]
                      /\ UNCHANGED <<stored, notif, msgs>>
          [] tab.kind = "configured" /\ s.config.mode # "delete" ->
               AdvanceAndReport(AlreadyConfigured(s, packageName),
                                Result(TRUE, packageName,
                                       ~Includes(s.completed, packageName), FALSE,
                                       Includes(s.completed, packageName)))
          [] tab.kind = "noform" /\ s.config.mode # "delete" ->
               /\ Send(Result(FALSE, packageName, FALSE, FALSE, FALSE))
               /\ pa' = [pc |-> "done", st |-> InitState]
               /\ UNCHANGED <<stored, notif, obs>>
          [] tab.kind = "form" /\ s.config.mode # "delete" ->
               /\ CanObserve
               /\ obs' = setupSuccessObserver(obs, packageName)
               /\ pa' = [pc |-> "done", st |-> InitState]
               /\ UNCHANGED <<stored, notif, msgs>>
  /\ UNCHANGED <<state, elements, ui, popupOpen, timer, tab, co, ops>>

\* delete mode, 500 ms after the observer is set up: clickDeleteButton();
\* a failure is reported if the button could not be clicked
clickDeleteButton ==
  /\ sh' = sh
  /\ last' = last
  /\ pa.pc = "click"
  /\ pa' = [pc |-> "done", st |-> InitState]
  /\ \E clicked \in BOOLEAN :
       IF clicked
         THEN msgs' = msgs
         ELSE CanSend /\ Send(Result(FALSE, tab.pkg, FALSE, FALSE, FALSE))
  /\ UNCHANGED <<stored, state, elements, ui, popupOpen, timer, notif, tab, obs, co, ops>>

\* the 500 ms timer of an advancing branch fires
navigateNext ==
  /\ sh' = sh
  /\ last' = last
  /\ pa.pc = "timer"
  /\ Navigate(At(pa.st.packages, pa.st.currentIndex))
  /\ UNCHANGED <<stored, state, elements, ui, popupOpen, timer, notif, msgs, ops>>

\* onMessage listener, fillForm: with the form on the page it fills it and
\* sets up the observer; else it clicks the GitHub Actions button and arms
\* a 500 ms timer
onFillForm ==
  /\ sh' = sh
  /\ last' = last
  /\ obs.fill = "sent"
  /\ \E visible \in BOOLEAN :
       /\ visible => tab.kind = "form"
       /\ IF visible
            THEN /\ CanObserve
                 /\ obs' = [setupSuccessObserver(obs, tab.pkg) EXCEPT !.fill = "none"]
            ELSE obs' = [obs EXCEPT !.fill = "timer"]
  /\ UNCHANGED <<stored, state, elements, ui, popupOpen, timer, notif, msgs, tab, pa, co, ops>>

\* the 500 ms timer of the fillForm listener: fill the form if it is there
\* now and set up the observer
fillFormTimer ==
  /\ sh' = sh
  /\ last' = last
  /\ obs.fill = "timer"
  /\ IF tab.kind = "form"
       THEN /\ CanObserve
            /\ obs' = [setupSuccessObserver(obs, tab.pkg) EXCEPT !.fill = "none"]
       ELSE obs' = [obs EXCEPT !.fill = "none"]
  /\ UNCHANGED <<stored, state, elements, ui, popupOpen, timer, notif, msgs, tab, pa, co, ops>>

\* the result observer sees a success indicator: it reports and reads the
\* record
observerSuccess ==
  /\ sh' = sh
  /\ last' = last
  /\ obs.pc = "none"
  /\ CanSend
  /\ Send(Result(TRUE, obs.pkg, FALSE, FALSE, TRUE))
  /\ \E i \in Connected(obs.list) :
       obs' = [obs EXCEPT !.on = FALSE, !.pc = "set", !.st = stored,
                          !.list = Live([@ EXCEPT ![i].connected = FALSE])]
  /\ UNCHANGED <<stored, state, elements, ui, popupOpen, timer, notif, tab, pa, co, ops>>

\* the record the observer writes back
ObserverRecord(s, packageName) ==
  [s EXCEPT !.completed = PushNew(s.completed, packageName)]

\* the observer's storage callback writes the record back
observerSet ==
  /\ sh' = sh
  /\ last' = last
  /\ obs.pc = "set"
  /\ Set(<<ObserverRecord(obs.st, obs.pkg)>>)
  /\ obs' = [obs EXCEPT !.pc = "none", !.st = InitState]
  /\ UNCHANGED <<state, elements, ui, popupOpen, timer, msgs, tab, pa, co, ops>>

\* the result observer sees an error indicator
observerError ==
  /\ sh' = sh
  /\ last' = last
  /\ CanSend
  /\ Send(Result(FALSE, obs.pkg, FALSE, FALSE, FALSE))
  /\ \E i \in Connected(obs.list) :
       obs' = [obs EXCEPT !.on = FALSE,
                          !.list = Live([@ EXCEPT ![i].connected = FALSE])]
  /\ UNCHANGED <<stored, state, elements, ui, popupOpen, timer, notif, tab, pa, co, ops>>

\* the 60 s timeout armed by one call of setupSuccessObserver fires: if the
\* observing flag is set it disconnects the observer of that call and
\* clears the flag
observerTimeout ==
  /\ sh' = sh
  /\ last' = last
  /\ \E i \in 1..Len(obs.list) :
       /\ obs.list[i].timeout
       /\ obs' = IF obs.on
                   THEN [obs EXCEPT !.on = FALSE,
                                    !.list = Live([@ EXCEPT ![i] = [connected |-> FALSE, timeout |-> FALSE]])]
                   ELSE [obs EXCEPT !.list = Live([@ EXCEPT ![i].timeout = FALSE])]
  /\ UNCHANGED <<stored, state, elements, ui, popupOpen, timer, notif, msgs, tab, pa, co, ops>>

(***************************************************************************)
(* service-worker.js: the Coordinator.                                     *)
(***************************************************************************)
\* tabs.onUpdated listener: read the record and look for a 404
onUpdated ==
  /\ sh' = sh
  /\ last' = last
  /\ co.pc = "event"
  /\ \E is404 \in BOOLEAN :
       /\ is404 => tab.kind = "notFound"
       /\ IF stored.status = "running" /\ is404
            THEN co' = [pc |-> "skip", st |-> stored]
            ELSE co' = NoCo
  /\ UNCHANGED <<stored, state, elements, ui, popupOpen, timer, notif, msgs, tab, pa, obs, ops>>

\* handle404Skip(state, tabId)
handle404Skip ==
  /\ sh' = sh
  /\ last' = last
  /\ co.pc = "skip"
  /\ LET s1 == Advanced(co.st, "skipped", At(co.st.packages, co.st.currentIndex))
     IN /\ Set(<<s1>>)
        /\ IF s1.currentIndex >= Len(s1.packages)
             THEN /\ co' = NoCo
                  /\ UNCHANGED <<tab, pa, obs>>
             ELSE Navigate(At(s1.packages, s1.currentIndex))
  /\ UNCHANGED <<state, elements, ui, popupOpen, timer, msgs, ops>>

Next ==
  \/ ClosePopup
  \/ init
  \/ handleFillCurrent
  \/ onFillForm
  \/ fillFormTimer
  \/ challengeCompleted
  \/ challengeTimeout
  \/ ChallengePassed
  \/ EditConfig
  \/ EditPackages
  \/ handleStart
  \/ handlePause
  \/ handleResume
  \/ handleReset
  \/ handleNext
  \/ onChanged
  \/ handlePackageResult
  \/ AdvanceTimer
  \/ handlePageLoad
  \/ classifyPage
  \/ clickDeleteButton
  \/ navigateNext
  \/ observerSuccess
  \/ observerSet
  \/ observerError
  \/ observerTimeout
  \/ onUpdated
  \/ handle404Skip

Spec == Init /\ [][Next]_vars


(***************************************************************************)
(* Properties.                                                             *)
(***************************************************************************)
Names == {"a", "b", Undefined}

\* the number of outcome buckets of record s that hold package p
InBuckets(s, p) ==
  (IF Includes(s.completed, p) THEN 1 ELSE 0)
  + (IF Includes(s.failed, p) THEN 1 ELSE 0)
  + (IF Includes(s.skipped, p) THEN 1 ELSE 0)

\* the step is the operator's action `name`
Did(name) == ops' = ops + 1 /\ last' = name

\* C1: at completion (the persisted status is idle and the cursor is at or
\* past the end of the list) every package of the list is in exactly one of
\* completed, failed and skipped.
C1_ClassifiedAtCompletion ==
  (stored.status = "idle" /\ stored.currentIndex >= Len(stored.packages))
    => \A i \in 1..Len(stored.packages) : InBuckets(stored, stored.packages[i]) = 1

\* C2: in the persisted record a package name is in at most one of
\* completed, failed and skipped.
C2_BucketsExclusive == \A p \in Names : InBuckets(stored, p) <= 1

\* C3: outside start and reset no step lowers the persisted currentIndex.
C3_IndexNeverDecreases ==
  [][ ~(Did("handleStart") \/ Did("handleReset"))
        => stored'.currentIndex >= stored.currentIndex ]_vars

\* the record's status, cursor and buckets are those of t
SameProgress(s, t) ==
  /\ s.status = t.status
  /\ s.currentIndex = t.currentIndex
  /\ s.completed = t.completed
  /\ s.failed = t.failed
  /\ s.skipped = t.skipped

\* the record has the cursor at 0 and empty buckets
Fresh(s) ==
  /\ s.currentIndex = 0
  /\ s.completed = <<>>
  /\ s.failed = <<>>
  /\ s.skipped = <<>>

\* the tab has been sent to the settings page of package p
NavigatedTo(p) == tab'.pkg = p /\ pa'.pc = "load"

\* what the operator has typed when pressing start
TypedPackages == parsePackages(elements.packages)
TypedConfigEmpty ==
  Trim(elements.owner) = "" \/ Trim(elements.repository) = "" \/ Trim(elements.workflow) = ""

\* C4: a start with an empty package list changes nothing: status, packages,
\* config, currentIndex and the buckets keep their values in the Controller's
\* state and in the persisted record, and the tab is not navigated.
C4_EmptyStartChangesNothing ==
  [][ (Did("handleStart") /\ TypedPackages = <<>>)
        => (state' = state /\ stored' = stored /\ NoNavigation) ]_vars

\* C5: a start with packages but an empty owner, repository or workflow
\* leaves the Controller's status, currentIndex, completed, failed and
\* skipped unchanged and does not navigate the tab.
C5_ConfigRejected ==
  [][ (Did("handleStart") /\ TypedPackages # <<>> /\ TypedConfigEmpty)
        => (SameProgress(state', state) /\ NoNavigation) ]_vars

C5_Witness ==
  /\ last = "handleStart"
  /\ state.packages # <<>>
  /\ state.config.workflow = ""
  /\ state.status = "paused"
  /\ state.currentIndex = 1

\* C6: an accepted start persists a running record with the cursor at 0 and
\* empty buckets, and navigates the tab to the page of packages[0].
C6_AcceptedStart ==
  [][ (Did("handleStart") /\ TypedPackages # <<>> /\ ~TypedConfigEmpty)
        => /\ stored'.status = "running"
           /\ Fresh(stored')
           /\ stored'.packages = TypedPackages
           /\ NavigatedTo(TypedPackages[1]) ]_vars

C6_Witness ==
  /\ last = "handleStart"
  /\ ops = 1
  /\ stored.status = "running"
  /\ Fresh(stored)
  /\ tab.pkg = "a"
  /\ pa.pc = "load"

\* C7: pause sets the Controller's status to paused and resume sets it to
\* running, changing nothing else of the state, which is persisted; resume
\* then navigates to packages[currentIndex], or sets the status to idle when
\* the cursor is at or past the end of the list.
C7_PauseResume ==
  [][ /\ Did("handlePause")
           => /\ state' = [state EXCEPT !.status = "paused"]
              /\ stored' = state'
      /\ Did("handleResume")
           => IF state.currentIndex >= Len(state.packages)
                THEN /\ state' = [state EXCEPT !.status = "idle"]
                     /\ stored' = state'
                     /\ NoNavigation
                ELSE /\ state' = [state EXCEPT !.status = "running"]
                     /\ stored' = state'
                     /\ NavigatedTo(state.packages[state.currentIndex + 1]) ]_vars

C7_Witness ==
  /\ last = "handleResume"
  /\ ops = 2
  /\ state.status = "running"
  /\ state.currentIndex = 1
  /\ tab.pkg = "b"
  /\ pa.pc = "load"

\* C8: reset sets the status to idle and the cursor to 0 and empties the
\* buckets, keeps packages and config, persists the state and does not
\* navigate the tab.
C8_Reset ==
  [][ Did("handleReset")
        => /\ state'.status = "idle"
           /\ Fresh(state')
           /\ state'.packages = state.packages
           /\ state'.config = state.config
           /\ stored' = state'
           /\ NoNavigation ]_vars

C8_Witness ==
  /\ last = "handleReset"
  /\ ops = 1
  /\ stored.status = "idle"
  /\ Fresh(stored)
  /\ stored.packages = <<"a", "b">>
  /\ tab.pkg = "b"

\* C9: next appends the current package to completed exactly when it is in
\* none of completed, failed and skipped, moves the cursor by one, and then
\* sets the status to idle (cursor exhausted) or navigates to the package at
\* the cursor.
C9_NextMarksUnclassified ==
  [][ Did("handleNext")
        => LET p == At(state.packages, state.currentIndex)
           IN /\ state'.completed =
                   IF p # Undefined /\ InBuckets(state, p) = 0
                     THEN Append(state.completed, p)
                     ELSE state.completed
              /\ state'.currentIndex = state.currentIndex + 1
              /\ IF state'.currentIndex >= Len(state.packages)
                   THEN state'.status = "idle"
                   ELSE NavigatedTo(At(state.packages, state'.currentIndex)) ]_vars

\* C10: the persisted cursor is within the package list.
C10_IndexInRange ==
  stored.currentIndex >= 0 /\ stored.currentIndex <= Len(stored.packages)

\* the cursor of record s is at or past the end of its package list
Exhausted(s) == s.currentIndex >= Len(s.packages)

\* the operator has done nothing, or nothing but press start
StartedOnly == ops = 0 \/ (ops = 1 /\ last = "handleStart")

\* the step is the Controller's handlePackageResult on message m
Handled(m) ==
  msgs # <<>> /\ Head(msgs) = m /\ msgs' = Tail(msgs) /\ popupOpen' /\ ops' = ops

\* C11: the persisted record is never running with an exhausted cursor:
\* whoever moves the cursor to the end of the list sets the status to idle.
C11_RunningNotExhausted == stored.status = "running" => ~Exhausted(stored)

\* C12: in a run on [a, b] the operator has only started, when the Controller
\* has handled the not-found result of package x the persisted record has x
\* in skipped and the cursor exactly one past x, and the run goes on to the
\* package that follows x (the tab is there or a navigation to it is pending).
C12_NotFoundSkipsOnce ==
  [][ \A m \in {Result(TRUE, x, FALSE, TRUE, FALSE) : x \in {"a", "b"}} :
        (Handled(m) /\ StartedOnly /\ state.packages = <<"a", "b">>)
          => LET i == IF m.packageName = "a" THEN 0 ELSE 1
                 following == At(state.packages, i + 1)
             IN /\ Includes(stored'.skipped, m.packageName)
                /\ stored'.currentIndex = i + 1
                /\ following # Undefined
                     => /\ stored'.status = "running"
                        /\ \/ tab'.pkg = following
                           \/ pa'.pc = "timer"
                           \/ timer' ]_vars

\* the run on [a, b] started by the operator's only action, in manual mode,
\* has the tab on the page of a, which needs the form
FormScenario ==
  /\ ops = 1
  /\ last = "handleStart"
  /\ state.packages = <<"a", "b">>
  /\ stored.packages = <<"a", "b">>
  /\ state.config.navigationMode = "manual"
  /\ tab = [pkg |-> "a", kind |-> "form"]

\* the results and storage events in flight are those of the page of a
NoLeftovers ==
  /\ \A i \in 1..Len(msgs) : msgs[i].packageName = "a"
  /\ \A i \in 1..Len(notif) : notif[i].currentIndex = 0

\* C13: with packages [a, b], manual navigation and no auto-submit, once the
\* page of a needs the form the cursor stays at a as long as the operator
\* does nothing; pressing next then puts a in completed, moves the cursor to
\* b and navigates to b.
C13_ManualScenario ==
  [][ /\ (FormScenario /\ NoLeftovers /\ ops' = ops
            /\ state.currentIndex = 0 /\ stored.currentIndex = 0)
           => (state'.currentIndex = 0 /\ stored'.currentIndex = 0)
      /\ (Did("handleNext") /\ ops = 1 /\ FormScenario /\ state.currentIndex = 0
            /\ ~Includes(state.failed, "a"))
           => /\ Includes(state'.completed, "a")
              /\ state'.currentIndex = 1
              /\ stored' = state'
              /\ NavigatedTo("b") ]_vars

C13_Witness ==
  /\ last = "handleNext"
  /\ ops = 2
  /\ stored.packages = <<"a", "b">>
  /\ stored.currentIndex = 1
  /\ stored.completed = <<"a">>
  /\ stored.status = "running"
  /\ tab.pkg = "b"
  /\ pa.pc = "load"

\* the step is a Page Agent report of message m
Reported(m) == msgs' = Append(msgs, m)

\* the result of a package configured or deleted in this run
NormalSuccess(x) == Result(TRUE, x, FALSE, FALSE, TRUE)

\* C14: in manual mode a normal success (neither not-found nor already
\* configured) advances the cursor in no component: the Page Agent step that
\* reports it leaves the stored currentIndex, and the Controller step that
\* handles it leaves the Controller's currentIndex.
C14_ManualSuccessWaits ==
  [][ \A x \in {"a", "b"} :
        (/\ tab.kind \in {"success", "form"}
         /\ stored.config.navigationMode = "manual"
         /\ state.config.navigationMode = "manual")
          => /\ Reported(NormalSuccess(x))
                  => stored'.currentIndex = stored.currentIndex
             /\ Handled(NormalSuccess(x))
                  => state'.currentIndex = state.currentIndex ]_vars

\* a reported failure of package x
Failure(x) == Result(FALSE, x, FALSE, FALSE, FALSE)

\* C15: the Controller's handling of a failed packageResult adds the
\* package to failed, leaves currentIndex and status unchanged, arms no
\* auto-advance timer and navigates nowhere; the record it saves is that
\* state.
C15_FailureWaits ==
  [][ \A x \in {"a", "b"} :
        Handled(Failure(x))
          => /\ Includes(state'.failed, x)
             /\ state'.currentIndex = state.currentIndex
             /\ state'.status = state.status
             /\ state'.completed = state.completed
             /\ state'.skipped = state.skipped
             /\ timer' = timer
             /\ tab' = tab
             /\ pa' = pa
             /\ stored' = state' ]_vars

C15_Witness ==
  /\ tab = [pkg |-> "a", kind |-> "noform"]
  /\ pa.pc = "done"
  /\ msgs = <<>>
  /\ notif = <<>>
  /\ ~timer
  /\ state.status = "running"
  /\ state.currentIndex = 0
  /\ state.failed = <<"a">>
  /\ stored = state

\* C16: the waiting outcome reported while a challenge is present is not an
\* error: the Controller step that handles it adds the package to none of
\* completed, failed and skipped and leaves currentIndex unchanged.
C16_WaitingIsNoFailure ==
  [][ \A x \in {"a", "b"} :
        Handled(Waiting(x))
          => /\ state'.completed = state.completed
             /\ state'.failed = state.failed
             /\ state'.skipped = state.skipped
             /\ state'.currentIndex = state.currentIndex ]_vars

\* steps of the in-flight timers and observers: the Page Agent's
\* classification after its wait, its 500 ms navigation timer, its result
\* observer, and the Controller's auto-advance timer
PostWaitStep == pa.pc = "wait" /\ pa'.pc \in {"done", "timer"}
NavigationTimerStep ==
  pa.pc = "timer" /\ pa'.pc = "load" /\ stored' = stored /\ timer' = timer
ObserverStep == obs' # obs /\ obs'.fill = obs.fill /\ tab' = tab /\ pa' = pa
AdvanceTimerStep == timer /\ ~timer'

\* C17: while the persisted status is paused, no step of an in-flight timer
\* or observer navigates the tab or changes the persisted currentIndex or
\* buckets.
C17_PausedGates ==
  [][ (/\ stored.status = "paused"
       /\ PostWaitStep \/ NavigationTimerStep \/ ObserverStep \/ AdvanceTimerStep)
        => /\ tab' = tab
           /\ stored'.currentIndex = stored.currentIndex
           /\ stored'.completed = stored.completed
           /\ stored'.failed = stored.failed
           /\ stored'.skipped = stored.skipped ]_vars

\* C18: at most one result observer is connected to the page at any time.
C18_OneObserver == Cardinality(Connected(obs.list)) <= 1

\* C19: the challenge wait ends by completion or by timeout, and the Page
\* Agent step that follows a timed-out wait does not wait for the challenge
\* again: it goes on to classify the page (or returns because the run is no
\* longer running there).
C19_TimeoutProceeds ==
  [][ /\ pa.pc = "challenge" => ENABLED (challengeCompleted \/ challengeTimeout)
      /\ (pa.pc = "timedOut" /\ pa'.pc \notin {"timedOut", "load"})
           => pa'.pc \in {"wait", "done"} ]_vars

\* C20: after the Controller has handled a successful packageResult for
\* package x, whatever its alreadyConfigured, notFound and completed flags
\* and whatever the buckets held, x is in exactly one of skipped and
\* completed.
C20_ReclassifiedExclusive ==
  [][ \A x \in {"a", "b"} : \A alreadyConfigured, notFound, completed \in BOOLEAN :
        Handled(Result(TRUE, x, alreadyConfigured, notFound, completed))
          => (Includes(state'.skipped, x) # Includes(state'.completed, x)) ]_vars

\* the outcome buckets of a record
Buckets == {"completed", "failed", "skipped"}

C22_FallbackRecords ==
  [][ (~popupOpen /\ PostWaitStep)
        => LET delete == pa.st.config.mode = "delete"
           IN /\ tab.kind = "notFound" => Includes(stored'.skipped, tab.pkg)
              /\ tab.kind = "success" => Includes(stored'.completed, tab.pkg)
              /\ (tab.kind = "configured" /\ ~delete)
                   => (Includes(stored'.skipped, tab.pkg) \/ Includes(stored'.completed, tab.pkg))
              /\ (tab.kind \in {"form", "noform"} /\ delete)
                   => Includes(stored'.skipped, tab.pkg)
              /\ (tab.kind = "noform" /\ ~delete) => Includes(stored'.failed, tab.pkg) ]_vars

\* C23: the mode is part of the configuration the Controller persists: when
\* the persisted record and the Controller's state are in delete mode, the
\* record is still in delete mode after the Controller saves its
\* configuration or starts a run.
C23_ModeKept ==
  [][ (/\ stored.config.mode = "delete"
       /\ state.config.mode = "delete"
       /\ Did("EditConfig") \/ Did("handleStart"))
        => stored'.config.mode = "delete" ]_vars

(***************************************************************************)
(* scripts/publish-unpublished.sh: the Publisher.                          *)
(***************************************************************************)
MaxLines == 2

\* sequences of at most n elements of S
RECURSIVE SeqsUpTo(_, _)
SeqsUpTo(S, n) ==
  IF n = 0 THEN {<<>>}
  ELSE LET shorter == SeqsUpTo(S, n - 1)
       IN shorter \cup {Append(q, x) : q \in {r \in shorter : Len(r) = n - 1}, x \in S}

\* a file that does not exist
NoFile == [exists |-> FALSE, lines |-> <<>>, newline |-> TRUE]

\* a package list file: its lines, and whether the last line ends with a
\* newline
PackageFiles ==
  {NoFile} \cup
  { [exists |-> TRUE, lines |-> l, newline |-> n] :
      l \in SeqsUpTo({"a", "b"}, MaxLines), n \in BOOLEAN }

\* wc -l < file: the number of newline characters
WcL(file) ==
  IF file.newline \/ file.lines = <<>> THEN Len(file.lines) ELSE Len(file.lines) - 1

\* the lines `while read -r pkg` runs its body on: read fails on a last
\* line that has no newline
ReadLines(file) == SubSeq(file.lines, 1, WcL(file))

\* what the passcode CLI prints
Passcodes == {"", "123456"}

\* the script before its first command
Publisher(file, op) ==
  [ prog |-> "publish", pc |-> "start", file |-> file, op |-> op,
    rest |-> <<>>, TOTAL |-> 0, i |-> 0, pkg |-> Undefined, OTP |-> Undefined,
    SUCCEEDED |-> <<>>, FAILED |-> <<>>,
    attempts |-> <<>>, out |-> {}, retry |-> NoFile, code |-> -1 ]

\* exit n, after printing the line tagged msg
Exit(r, msg, n) == [r EXCEPT !.pc = "exit", !.out = @ \cup {msg}, !.code = n]

\* lines 14-28: the list file and the passcode CLI must exist
pubStart ==
  /\ sh.prog = "publish"
  /\ sh.pc = "start"
  /\ sh' = IF ~sh.file.exists THEN Exit(sh, "Error: file not found", 1)
           ELSE IF ~sh.op THEN Exit(sh, "Error: op not found", 1)
           ELSE [sh EXCEPT !.pc = "read", !.TOTAL = WcL(sh.file),
                           !.rest = ReadLines(sh.file)]
  /\ UNCHANGED ext

\* lines 31-35: read the next line, or leave the loop
pubRead ==
  /\ sh.prog = "publish"
  /\ sh.pc = "read"
  /\ sh' = IF sh.rest = <<>>
             THEN [sh EXCEPT !.pc = "summary"]
             ELSE [sh EXCEPT !.pc = "otp", !.pkg = Head(sh.rest),
                             !.rest = Tail(sh.rest), !.i = sh.i + 1]
  /\ UNCHANGED ext

\* a loop that goes on to publish with an empty passcode
pubOTPLenient ==
  /\ sh.prog = "publish"
  /\ sh.pc = "otp"
  /\ \E otp \in Passcodes : sh' = [sh EXCEPT !.OTP = otp, !.pc = "publish"]
  /\ UNCHANGED ext

\* lines 38-43: a fresh passcode; an empty one is fatal
pubOTP ==
  /\ sh.prog = "publish"
  /\ sh.pc = "otp"
  /\ \E otp \in Passcodes :
       sh' = IF otp = ""
               THEN Exit([sh EXCEPT !.OTP = otp], "Error: Could not get OTP", 1)
               ELSE [sh EXCEPT !.OTP = otp, !.pc = "publish"]
  /\ UNCHANGED ext

\* lines 46-52: pnpm publish, and the bookkeeping of its result
pubPublish ==
  /\ sh.prog = "publish"
  /\ sh.pc = "publish"
  /\ \E ok \in BOOLEAN :
       sh' = [sh EXCEPT !.pc = "sleep",
                        !.attempts = Append(@, sh.pkg),
                        !.SUCCEEDED = IF ok THEN Append(@, sh.pkg) ELSE @,
                        !.FAILED = IF ok THEN @ ELSE Append(@, sh.pkg)]
  /\ UNCHANGED ext

\* lines 55-60: sleep unless this was the last line
pubSleep ==
  /\ sh.prog = "publish"
  /\ sh.pc = "sleep"
  /\ sh' = [sh EXCEPT !.pc = "read",
                      !.out = IF sh.i < sh.TOTAL THEN @ \cup {"Waiting"} ELSE @]
  /\ UNCHANGED ext

\* lines 63-81: the summary; with failures it prints the retry command
pubSummary ==
  /\ sh.prog = "publish"
  /\ sh.pc = "summary"
  /\ sh' = [sh EXCEPT !.pc = "exit", !.code = 0,
                      !.out = @ \cup {"SUMMARY"} \cup
                              (IF Len(sh.FAILED) > 0
                                 THEN {"Failed packages", "To retry failed packages, run"}
                                 ELSE {})]
  /\ UNCHANGED ext

\* the extension at rest while a script runs
AtRest ==
  /\ stored = defaultState
  /\ tab = [pkg |-> "none", kind |-> "none"]
  /\ pa = NoPa
  /\ co = NoCo
  /\ state = Spread(InitState, stored)
  /\ elements = ElementsOf(state)
  /\ ui = updateUI(state)
  /\ popupOpen = FALSE
  /\ timer = FALSE
  /\ notif = <<>>
  /\ msgs = <<>>
  /\ obs = NoObs
  /\ ops = 0
  /\ last = "init"

PublisherInit ==
  /\ AtRest
  /\ \E file \in PackageFiles : \E op \in BOOLEAN : sh = Publisher(file, op)

PublisherNext ==
  \/ pubStart
  \/ pubRead
  \/ pubOTP
  \/ pubPublish
  \/ pubSleep
  \/ pubSummary

PublisherSpec == PublisherInit /\ [][PublisherNext]_vars

\* the script has just aborted on an empty passcode
EmptyPasscodeStep == sh.pc = "otp" /\ sh'.pc = "exit"

\* C24: when the passcode CLI returns an empty passcode the Publisher exits
\* at once with a non-zero status: that step runs no publish and adds
\* nothing to SUCCEEDED or FAILED, and after the exit nothing changes, so no
\* publish is attempted for that package or a later one.
C24_EmptyPasscodeAborts ==
  [][ /\ (sh.pc = "otp" /\ sh'.OTP = "")
           => /\ sh'.pc = "exit"
              /\ sh'.code = 1
              /\ sh'.attempts = sh.attempts
              /\ sh'.SUCCEEDED = sh.SUCCEEDED
              /\ sh'.FAILED = sh.FAILED
              /\ Len(sh.attempts) = sh.i - 1
      /\ sh.pc = "exit" => sh' = sh ]_vars

C24_Witness ==
  /\ sh.prog = "publish"
  /\ sh.pc = "exit"
  /\ sh.OTP = ""
  /\ sh.code = 1
  /\ sh.file.lines = <<"a", "b">>
  /\ sh.pkg = "a"
  /\ sh.attempts = <<>>
  /\ sh.SUCCEEDED = <<>>
  /\ sh.FAILED = <<>>

\* C25: at the end of a run in which a publish failed, failed-packages.txt
\* holds the failed package names and the retry command has been printed.
C25_RetryFileWritten ==
  (sh.prog = "publish" /\ sh.pc = "exit" /\ sh.code = 0 /\ Len(sh.FAILED) > 0)
    => /\ sh.retry.exists
       /\ sh.retry.lines = sh.FAILED
       /\ "To retry failed packages, run" \in sh.out

(***************************************************************************)
(* The Checker: unnamed/part_000 (node) and scripts/check-unpublished.sh.   *)
(***************************************************************************)
\* the batch size of the node checker (20 in the source)
CONCURRENCY == 2

\* the package names of the monorepo, in sort order
Sorted == <<"a", "b", "c">>

\* Array.prototype.sort / sort(1) of a set of package names
Sort(S) == SelectSeq(Sorted, LAMBDA x : x \in S)

\* the elements of a list
Elems(list) == {list[k] : k \in 1..Len(list)}

\* what the package manager lists: for each listed name, whether its
\* package.json says private
Manifests == UNION {[S -> BOOLEAN] : S \in SUBSET Elems(Sorted)}

\* what a registry request returns: an HTTP status, or 0 when the request
\* itself fails
ProbeStatuses == {0, 200, 404, 500}

\* the checker before its first statement
Checker(impl, manifest) ==
  [ prog |-> "check", impl |-> impl, pc |-> "start", manifest |-> manifest,
    packages |-> <<>>, i |-> 0, batch |-> <<>>, inflight |-> {}, found |-> {},
    checked |-> 0, probed |-> {},
    published |-> <<>>, unpublished |-> <<>>, errors |-> <<>>,
    out |-> {}, list |-> NoFile, code |-> -1 ]

\* part_000 main(), lines 44-80: the non-private packages, sorted
main ==
  /\ sh.prog = "check" /\ sh.impl = "node"
  /\ sh.pc = "start"
  /\ sh' = [sh EXCEPT !.pc = "batch",
                      !.packages = Sort({p \in DOMAIN sh.manifest : ~sh.manifest[p]})]
  /\ UNCHANGED ext

\* lines 82-89: the loop test, the slice, and one probe started per package
\* of the batch
startBatch ==
  /\ sh.prog = "check" /\ sh.impl = "node"
  /\ sh.pc = "batch"
  /\ sh' = IF sh.i < Len(sh.packages)
             THEN LET to == IF sh.i + CONCURRENCY < Len(sh.packages)
                              THEN sh.i + CONCURRENCY ELSE Len(sh.packages)
                      batch == SubSeq(sh.packages, sh.i + 1, to)
                  IN [sh EXCEPT !.pc = "await", !.batch = batch,
                                !.inflight = Elems(batch), !.found = {}]
             ELSE [sh EXCEPT !.pc = "report"]
  /\ UNCHANGED ext

\* checkPackageExists(pkg), lines 14-21 and 85-88: one probe completes
checkPackageExists ==
  /\ sh.prog = "check" /\ sh.impl = "node"
  /\ sh.pc = "await"
  /\ \E pkg \in sh.inflight : \E status \in ProbeStatuses :
       sh' = [sh EXCEPT !.inflight = @ \ {pkg},
                        !.probed = @ \cup {<<pkg, status>>},
                        !.found = IF status = 200 THEN @ \cup {pkg} ELSE @,
                        !.checked = @ + 1]
  /\ UNCHANGED ext

\* a collection that does not wait for the probes of the batch
collectBatchEarly ==
  /\ sh.prog = "check" /\ sh.impl = "node"
  /\ sh.pc = "await"
  /\ sh' = [sh EXCEPT !.pc = "batch", !.i = @ + CONCURRENCY,
                      !.published = @ \o SelectSeq(sh.batch, LAMBDA p : p \in sh.found),
                      !.unpublished = @ \o SelectSeq(sh.batch, LAMBDA p : p \notin sh.found)]
  /\ UNCHANGED ext

\* lines 91-99: Promise.all has resolved; the results in batch order
collectBatch ==
  /\ sh.prog = "check" /\ sh.impl = "node"
  /\ sh.pc = "await"
  /\ sh.inflight = {}
  /\ sh' = [sh EXCEPT !.pc = "batch", !.i = @ + CONCURRENCY,
                      !.published = @ \o SelectSeq(sh.batch, LAMBDA p : p \in sh.found),
                      !.unpublished = @ \o SelectSeq(sh.batch, LAMBDA p : p \notin sh.found)]
  /\ UNCHANGED ext

\* the report, and the list file when a package is unpublished (part_000
\* 101-135, check-unpublished.sh 41-101)
report ==
  /\ sh.prog = "check"
  /\ sh.pc = "report"
  /\ sh' = [sh EXCEPT !.pc = "exit", !.code = 0,
                      !.out = @ \cup {"RESULTS"},
                      !.list = IF Len(sh.unpublished) > 0
                                 THEN [exists |-> TRUE, lines |-> sh.unpublished, newline |-> TRUE]
                                 ELSE @]
  /\ UNCHANGED ext

\* check-unpublished.sh, lines 7-20: the listed names, sorted
listPackages ==
  /\ sh.prog = "check" /\ sh.impl = "sh"
  /\ sh.pc = "start"
  /\ sh' = [sh EXCEPT !.pc = "loop", !.packages = Sort(DOMAIN sh.manifest)]
  /\ UNCHANGED ext

\* lines 21-39: one iteration: npm view, then curl when npm view fails; a
\* curl that fails ends the script (set -e)
checkLoop ==
  /\ sh.prog = "check" /\ sh.impl = "sh"
  /\ sh.pc = "loop"
  /\ IF sh.i >= Len(sh.packages)
       THEN sh' = [sh EXCEPT !.pc = "report"]
       ELSE LET pkg == sh.packages[sh.i + 1]
            IN \E view \in ProbeStatuses : \E status \in ProbeStatuses :
                 LET s1 == [sh EXCEPT !.i = @ + 1, !.checked = @ + 1]
                 IN IF view = 200
                      THEN sh' = [s1 EXCEPT !.probed = @ \cup {<<pkg, view>>},
                                            !.published = Append(@, pkg)]
                      ELSE LET s2 == [s1 EXCEPT !.probed = @ \cup {<<pkg, status>>}]
                           IN sh' = CASE status = 0 -> [s2 EXCEPT !.pc = "exit", !.code = 1]
                                      [] status = 404 -> [s2 EXCEPT !.unpublished = Append(@, pkg)]
                                      [] status = 200 -> [s2 EXCEPT !.published = Append(@, pkg)]
                                      [] OTHER -> [s2 EXCEPT !.errors = Append(@, pkg)]
  /\ UNCHANGED ext

CheckerInit ==
  /\ AtRest
  /\ \E impl \in {"node", "sh"} : \E manifest \in Manifests : sh = Checker(impl, manifest)

CheckerNext ==
  \/ main
  \/ startBatch
  \/ checkPackageExists
  \/ collectBatch
  \/ report
  \/ listPackages
  \/ checkLoop

CheckerSpec == CheckerInit /\ [][CheckerNext]_vars

\* C26: when the Checker has ended, every enumerated package is in exactly
\* one of published and unpublished, and it is in published if and only if
\* its registry probe returned status 200.
C26_ClassifiedByStatus ==
  (sh.prog = "check" /\ sh.pc = "exit")
    => \A p \in Elems(sh.packages) :
         /\ (p \in Elems(sh.published)) # (p \in Elems(sh.unpublished))
         /\ (p \in Elems(sh.published)) <=> (<<p, 200>> \in sh.probed)

\* the observers of list whose 60 s timeout is pending
Pending(list) == {k \in 1..Len(list) : list[k].timeout}

\* the step is the firing of the 60 s timeout of an observer
TimeoutStep ==
  /\ Cardinality(Pending(obs'.list)) < Cardinality(Pending(obs.list))
  /\ tab' = tab /\ pa' = pa /\ co' = co /\ timer' = timer /\ ops' = ops

\* C27: the result observer is bounded: when the 60 s timeout of an observer
\* fires, nothing is reported, the persisted record (buckets, currentIndex)
\* is left as it is, and no observer stays connected past its timeout.
C27_ObserverBounded ==
  [][ TimeoutStep
        => /\ msgs' = msgs
           /\ stored' = stored
           /\ \A k \in Connected(obs'.list) : obs'.list[k].timeout ]_vars

\* the step is the page-load handler running up to its first wait or return
PageLoadStep == pa.pc \in {"load", "timedOut"} /\ pa'.pc \in {"done", "wait", "challenge"}

\* C28: when the persisted status is not running, or the package of the
\* page URL is not packages[currentIndex], the page-load handler writes
\* nothing to the record, sends no message and does not navigate.
C28_StaleTabGuard ==
  [][ (/\ PageLoadStep
       /\ \/ stored.status # "running"
          \/ tab.pkg # At(stored.packages, stored.currentIndex))
        => /\ stored' = stored
           /\ msgs' = msgs
           /\ tab' = tab
           /\ pa'.pc = "done" ]_vars

\* the Page Agent's step finishes the run or arms the navigation to the next
\* package of the record s it saves
FinishesOrNavigates(s) ==
  IF Exhausted(s)
    THEN s.status = "idle" /\ pa'.pc = "done"
    ELSE s.status = pa.st.status /\ pa'.pc = "timer" /\ pa'.st = s

\* C29: configure mode, already-configured page. With the package in the
\* completed list the handler read, skipped is left as read and the report
\* is {alreadyConfigured: false, completed: true}; else the package is put
\* in skipped (once) and the report is {alreadyConfigured: true, completed:
\* false}. Either way the saved record has the cursor read plus one, and
\* the run finishes or the navigation to the next package is armed.
C29_AlreadyConfigured ==
  [][ (PostWaitStep /\ tab.kind = "configured" /\ pa.st.config.mode # "delete")
        => LET s == pa.st
               p == tab.pkg
               was == Includes(s.completed, p)
           IN /\ stored'.skipped = IF was THEN s.skipped ELSE PushNew(s.skipped, p)
              /\ stored'.completed = s.completed
              /\ stored'.failed = s.failed
              /\ stored'.currentIndex = s.currentIndex + 1
              /\ FinishesOrNavigates(stored')
              /\ Send(Result(TRUE, p, ~was, FALSE, was)) ]_vars

C29_Witness ==
  /\ tab = [pkg |-> "a", kind |-> "configured"]
  /\ pa.pc = "done"
  /\ stored.packages = <<"a", "a">>
  /\ stored.currentIndex = 2
  /\ stored.status = "idle"
  /\ stored.completed = <<"a">>
  /\ stored.skipped = <<>>
  /\ msgs = <<Result(TRUE, "a", FALSE, FALSE, TRUE)>>

\* the Page Agent, in delete mode, leaves its wait on the loaded page
DeleteModeStep ==
  /\ pa.pc = "wait"
  /\ pa'.pc \notin {"wait", "load"}
  /\ pa.st.config.mode = "delete"

DeleteControlStep == DeleteModeStep /\ tab.kind = "configured"

\* the Page Agent's click on the delete control, 500 ms later
DeleteClickStep == pa.pc = "click" /\ pa'.pc = "done"

C32_SuccessVisible ==
  [][ (PostWaitStep /\ tab.kind = "success")
        => LET s == pa.st
               p == tab.pkg
           IN /\ stored'.completed =
                   IF Includes(s.completed, p) THEN s.completed
                                               ELSE Append(s.completed, p)
              /\ stored'.skipped = s.skipped
              /\ stored'.failed = s.failed
              /\ stored'.currentIndex = s.currentIndex + 1
              /\ FinishesOrNavigates(stored')
              /\ obs' = obs
              /\ Send(Result(TRUE, p, FALSE, FALSE, TRUE)) ]_vars

C32_Witness ==
  /\ stored.config.mode = "delete"
  /\ tab = [pkg |-> "b", kind |-> "success"]
  /\ pa.pc = "done"
  /\ ~obs.on
  /\ stored.packages = <<"a", "b">>
  /\ stored.currentIndex = 2
  /\ stored.status = "idle"
  /\ stored.completed = <<"a", "b">>
  /\ stored.skipped = <<>>
  /\ msgs = <<Result(TRUE, "b", FALSE, FALSE, TRUE)>>

\* no element of the list occurs at two positions
NoDuplicates(list) ==
  \A i, j \in 1..Len(list) : list[i] = list[j] => i = j

\* C33: in every reachable state of the persisted record none of
\* completed, failed and skipped holds the same package name twice.
C33_BucketsAreSets ==
  /\ NoDuplicates(stored.completed)
  /\ NoDuplicates(stored.failed)
  /\ NoDuplicates(stored.skipped)

C33_Witness ==
  /\ stored.packages = <<"a", "a">>
  /\ stored.currentIndex = 2
  /\ stored.skipped = <<"a">>
  /\ stored.completed = <<>>
  /\ tab = [pkg |-> "a", kind |-> "notFound"]
  /\ pa.pc = "done"

\* C34: the Checker never has more than CONCURRENCY probes in flight, and
\* a probe starts only when no probe of an earlier batch is still in
\* flight.
C34_BoundedConcurrency ==
  [][ sh.prog = "check"
        => /\ Cardinality(sh'.inflight) <= CONCURRENCY
           /\ (sh'.inflight \ sh.inflight # {}) => sh.inflight = {} ]_vars

C34_Witness ==
  /\ sh.prog = "check"
  /\ sh.impl = "node"
  /\ sh.pc = "await"
  /\ sh.packages = <<"a", "b", "c">>
  /\ sh.i = CONCURRENCY
  /\ sh.checked = CONCURRENCY
  /\ sh.inflight = {"c"}

\* C35: the cursor never jumps over a package. During a run, a step other
\* than an operator action that moves the persisted cursor forward from a
\* package of the list, the list unchanged, moves it by one, and off the package whose page
\* the tab shows: the reactions to one page move the cursor by one in
\* total.
C35_NoJump ==
  [][ (/\ stored'.currentIndex > stored.currentIndex
       /\ stored'.packages = stored.packages
       /\ stored.currentIndex < Len(stored.packages)
       /\ stored.status = "running"
       /\ ops' = ops)
        => /\ stored'.currentIndex = stored.currentIndex + 1
           /\ At(stored.packages, stored.currentIndex) = tab.pkg ]_vars

\* C36: once the record is persisted with status paused, only resume,
\* start or reset take it out of paused: no write of the Page Agent, the
\* result observer or the Coordinator does.
C36_PausedStays ==
  [][ (stored.status = "paused" /\ stored'.status # "paused")
        => /\ ops' = ops + 1
           /\ last' \in {"handleResume", "handleStart", "handleReset"} ]_vars

(***************************************************************************)
(* An unattended run in auto navigation mode.                              *)
(***************************************************************************)
\* the pages with a terminal outcome that is no failure: not found, success
\* notification visible, already configured
TerminalKinds == {"notFound", "success", "configured"}

\* the record handleStart has saved for a list of three packages, with
\* navigationMode auto and autoSubmit on
AutoRecord ==
  [ Saved("running", <<"a", "b", "c">>, 0, <<>>)
      EXCEPT !.config.navigationMode = "auto", !.config.autoSubmit = TRUE ]

\* the run has just been started: the tab loads the page of the first
\* package; the popup is open or has been closed, and the operator does
\* nothing more
AutoInit ==
  /\ stored = AutoRecord
  /\ \E k \in TerminalKinds :
       /\ tab = [pkg |-> "a", kind |-> k]
       /\ co = IF k = "notFound" THEN [pc |-> "event", st |-> InitState] ELSE NoCo
  /\ pa = [pc |-> "load", st |-> InitState]
  /\ popupOpen \in BOOLEAN
  /\ state = Spread(InitState, stored)
  /\ elements = ElementsOf(state)
  /\ ui = updateUI(state)
  /\ timer = FALSE
  /\ notif = <<>>
  /\ msgs = <<>>
  /\ obs = NoObs
  /\ ops = MaxOps
  /\ last = "handleStart"
  /\ sh = NoScript

\* every page the tab loads has a terminal outcome
TerminalPages == tab'.kind \in TerminalKinds

\* the callbacks and timers of the three components
AutoNext ==
  \/ handlePageLoad /\ TerminalPages
  \/ classifyPage /\ TerminalPages
  \/ navigateNext /\ TerminalPages
  \/ onChanged /\ TerminalPages
  \/ handlePackageResult /\ TerminalPages
  \/ AdvanceTimer /\ TerminalPages
  \/ onUpdated /\ TerminalPages
  \/ handle404Skip /\ TerminalPages

\* every callback or timer that stays due runs
AutoFairness ==
  /\ WF_vars(handlePageLoad /\ TerminalPages)
  /\ WF_vars(classifyPage /\ TerminalPages)
  /\ WF_vars(navigateNext /\ TerminalPages)
  /\ WF_vars(onChanged /\ TerminalPages)
  /\ WF_vars(handlePackageResult /\ TerminalPages)
  /\ WF_vars(AdvanceTimer /\ TerminalPages)
  /\ WF_vars(onUpdated /\ TerminalPages)
  /\ WF_vars(handle404Skip /\ TerminalPages)

AutoSpec == AutoInit /\ [][AutoNext]_vars /\ AutoFairness

AgentWrite ==
  /\ stored' # stored
  /\ ops' = ops
  /\ timer' = timer
  /\ Len(msgs') >= Len(msgs)

\* C38: every write to the persisted record by the Page Agent, its result
\* observer or the Coordinator leaves packages and config as they were
\* stored right before the write.
C38_OnlyControllerEdits ==
  [][ AgentWrite
        => /\ stored'.packages = stored.packages
           /\ stored'.config = stored.config ]_vars

====
